---- MODULE Spec2Model ----
(***************************************************************************)
(* Model of the swimming-club chatbot of src/chatboot.py: the response     *)
(* cache (RedisCache), the keyword intent resolver                         *)
(* (LlamaSwimmingBot.get_fallback_response), the document search           *)
(* (search_documents) and the answer composer (generate_response).         *)
(*                                                                         *)
(* Text is a sequence of characters; a character is a one-letter string.   *)
(* The accented letters of the source are written with ASCII names:        *)
(* "n~" is n-tilde, "a'" "e'" "i'" "o'" "u'" carry an acute accent, "?^"   *)
(* is the inverted question mark; their capitals are "N~", "A'", ...       *)
(* A template literal of the source is a text of one token naming it.      *)
(***************************************************************************)
EXTENDS Integers, Sequences, FiniteSets, TLC

VARIABLES
  redis_installed,  \* REDIS_AVAILABLE: the redis module could be imported
  store_up,         \* the Redis server answers right now (environment)
  cache_available,  \* RedisCache.cache_available
  store,            \* the Redis keyspace: key -> [value, expire_at]
  now,              \* the clock, in seconds
  vectorstore,      \* LlamaSwimmingBot.vectorstore: None or the FAISS index
  last,             \* what the last operation was given, did and returned
  asked,            \* history: per cache key, the last freshly resolved answer
  written,          \* history: per normalized query, the last successful set
  text,             \* intent resolver under test: the query
  variant,          \* ... a respelling of it (case, surrounding whitespace)
  edits,            \* ... the number of respelling steps taken
  answer,           \* ... get_fallback_response(text), once asked
  variant_answer,   \* ... get_fallback_response(variant), once asked
  paths,            \* the files and directories of the working directory
  pdf_folder,       \* the documents folder "pdfs": absent, or the files in it
  rag,              \* what the last setup_rag_system call did
  messages          \* st.session_state.messages: the session transcript

vars == << redis_installed, store_up, cache_available, store, now, vectorstore,
           last, asked, written, text, variant, edits, answer, variant_answer,
           paths, pdf_folder, rag, messages >>
botVars == << redis_installed, store_up, cache_available, store, now,
              vectorstore, last, asked, written >>
resolverVars == << text, variant, edits, answer, variant_answer >>
appVars == << paths, pdf_folder, rag, messages >>

----------------------------------------------------------------------------
(* Python values *)

\* Python's None, a value outside every text the program builds.
None == <<"<None>">>

\* The truth value Python gives a text or None in `if x:`.
Truthy(x) == x # None /\ x # <<>>

\* str.lower() and str.upper() on the letters the program's texts use.
LowerLetters ==
  <<"a","b","c","d","e","f","g","h","i","j","k","l","m","n","o","p","q","r",
    "s","t","u","v","w","x","y","z","n~","a'","e'","i'","o'","u'">>
UpperLetters ==
  <<"A","B","C","D","E","F","G","H","I","J","K","L","M","N","O","P","Q","R",
    "S","T","U","V","W","X","Y","Z","N~","A'","E'","I'","O'","U'">>

lower_char(c) ==
  IF \E i \in 1..Len(UpperLetters) : UpperLetters[i] = c
  THEN LowerLetters[CHOOSE i \in 1..Len(UpperLetters) : UpperLetters[i] = c]
  ELSE c

upper_char(c) ==
  IF \E i \in 1..Len(LowerLetters) : LowerLetters[i] = c
  THEN UpperLetters[CHOOSE i \in 1..Len(LowerLetters) : LowerLetters[i] = c]
  ELSE c

lower(s) == [i \in 1..Len(s) |-> lower_char(s[i])]

\* The characters str.strip() removes.
Whitespace == {" ", "\t", "\n"}

RECURSIVE lstrip(_)
lstrip(s) ==
  IF s # <<>> /\ Head(s) \in Whitespace THEN lstrip(Tail(s)) ELSE s

RECURSIVE rstrip(_)
rstrip(s) ==
  IF s # <<>> /\ s[Len(s)] \in Whitespace
  THEN rstrip(SubSeq(s, 1, Len(s) - 1)) ELSE s

\* str.strip(): the text without its leading and trailing whitespace.
strip(s) == rstrip(lstrip(s))

\* Python's `word in s` for texts.
Contains(s, word) ==
  \E i \in 1..(Len(s) - Len(word) + 1) : SubSeq(s, i, i + Len(word) - 1) = word

\* any(word in s for word in words)
AnyIn(words, s) == \E k \in 1..Len(words) : Contains(s, words[k])

----------------------------------------------------------------------------
(* The intent resolver: keyword lists of get_fallback_response *)

\* The enrollment keywords without registro.
enrollment_words_without_registro ==
  << <<"i","n","s","c","r","i","p","c","i","o","n">>,
     <<"i","n","s","c","r","i","p","c","i","o'","n">>,
     <<"i","n","s","c","r","i","b","i","r","m","e">>,
     <<"m","a","t","r","i","c","u","l","a">>,
     <<"m","a","t","r","i'","c","u","l","a">>,
     <<"p","a","s","o","s">>,
     <<"p","a","s","o","s">>,
     <<"c","o","m","o"," ","m","e"," ","i","n","s","c","r","i","b","o">>,
     <<"c","o'","m","o"," ","m","e"," ","i","n","s","c","r","i","b","o">> >>

\* src/chatboot.py:298  inscripcion, inscripción, inscribirme, matricula, matrícula, registro, pasos, como me inscribo, cómo me inscribo
enrollment_words ==
  << <<"i","n","s","c","r","i","p","c","i","o","n">>,
     <<"i","n","s","c","r","i","p","c","i","o'","n">>,
     <<"i","n","s","c","r","i","b","i","r","m","e">>,
     <<"m","a","t","r","i","c","u","l","a">>,
     <<"m","a","t","r","i'","c","u","l","a">>,
     <<"r","e","g","i","s","t","r","o">>,
     <<"p","a","s","o","s">>,
     <<"c","o","m","o"," ","m","e"," ","i","n","s","c","r","i","b","o">>,
     <<"c","o'","m","o"," ","m","e"," ","i","n","s","c","r","i","b","o">> >>

\* src/chatboot.py:301  horario, hora, cuando, tiempo
schedule_words ==
  << <<"h","o","r","a","r","i","o">>,
     <<"h","o","r","a">>,
     <<"c","u","a","n","d","o">>,
     <<"t","i","e","m","p","o">> >>

\* src/chatboot.py:302  niño, niña, menor, infantil
child_words ==
  << <<"n","i","n~","o">>,
     <<"n","i","n~","a">>,
     <<"m","e","n","o","r">>,
     <<"i","n","f","a","n","t","i","l">> >>

\* src/chatboot.py:325  adulto, mayor
adult_words ==
  << <<"a","d","u","l","t","o">>,
     <<"m","a","y","o","r">> >>

\* src/chatboot.py:372  precio, costo, valor, cuanto, pago
price_words ==
  << <<"p","r","e","c","i","o">>,
     <<"c","o","s","t","o">>,
     <<"v","a","l","o","r">>,
     <<"c","u","a","n","t","o">>,
     <<"p","a","g","o">> >>

\* src/chatboot.py:391  traer, necesito, llevar, primera clase, equipamiento
bring_words ==
  << <<"t","r","a","e","r">>,
     <<"n","e","c","e","s","i","t","o">>,
     <<"l","l","e","v","a","r">>,
     <<"p","r","i","m","e","r","a"," ","c","l","a","s","e">>,
     <<"e","q","u","i","p","a","m","i","e","n","t","o">> >>

\* src/chatboot.py:412  enfasis, énfasis, enfoque, que enseñan, metodologia, metodología, escuela, enseñanza, sistema, niveles, como enseñan, que aprendo, qué aprendo
emphasis_words ==
  << <<"e","n","f","a","s","i","s">>,
     <<"e'","n","f","a","s","i","s">>,
     <<"e","n","f","o","q","u","e">>,
     <<"q","u","e"," ","e","n","s","e","n~","a","n">>,
     <<"m","e","t","o","d","o","l","o","g","i","a">>,
     <<"m","e","t","o","d","o","l","o","g","i'","a">>,
     <<"e","s","c","u","e","l","a">>,
     <<"e","n","s","e","n~","a","n","z","a">>,
     <<"s","i","s","t","e","m","a">>,
     <<"n","i","v","e","l","e","s">>,
     <<"c","o","m","o"," ","e","n","s","e","n~","a","n">>,
     <<"q","u","e"," ","a","p","r","e","n","d","o">>,
     <<"q","u","e'"," ","a","p","r","e","n","d","o">> >>

\* src/chatboot.py:433  edad, años, niño, menor
age_words ==
  << <<"e","d","a","d">>,
     <<"a","n~","o","s">>,
     <<"n","i","n~","o">>,
     <<"m","e","n","o","r">> >>

\* src/chatboot.py:451  contacto, teléfono, telefono, whatsapp, direccion, dirección, ubicacion, ubicación, donde
contact_words ==
  << <<"c","o","n","t","a","c","t","o">>,
     <<"t","e","l","e'","f","o","n","o">>,
     <<"t","e","l","e","f","o","n","o">>,
     <<"w","h","a","t","s","a","p","p">>,
     <<"d","i","r","e","c","c","i","o","n">>,
     <<"d","i","r","e","c","c","i","o'","n">>,
     <<"u","b","i","c","a","c","i","o","n">>,
     <<"u","b","i","c","a","c","i","o'","n">>,
     <<"d","o","n","d","e">> >>

\* The make-up class keywords without the accented spelling.
makeup_words_unaccented ==
  << <<"r","e","p","o","s","i","c","i","o","n">>,
     <<"r","e","p","o","n","e","r">>,
     <<"r","e","c","u","p","e","r","a","r"," ","c","l","a","s","e">>,
     <<"f","a","l","t","a","r">> >>

\* src/chatboot.py:462  reposicion, reposición, reponer, recuperar clase, faltar
makeup_words ==
  << <<"r","e","p","o","s","i","c","i","o","n">>,
     <<"r","e","p","o","s","i","c","i","o'","n">>,
     <<"r","e","p","o","n","e","r">>,
     <<"r","e","c","u","p","e","r","a","r"," ","c","l","a","s","e">>,
     <<"f","a","l","t","a","r">> >>

\* src/chatboot.py:486  reglamento, reglas, normas, politicas, políticas, terminos, términos, condiciones
policy_words ==
  << <<"r","e","g","l","a","m","e","n","t","o">>,
     <<"r","e","g","l","a","s">>,
     <<"n","o","r","m","a","s">>,
     <<"p","o","l","i","t","i","c","a","s">>,
     <<"p","o","l","i'","t","i","c","a","s">>,
     <<"t","e","r","m","i","n","o","s">>,
     <<"t","e'","r","m","i","n","o","s">>,
     <<"c","o","n","d","i","c","i","o","n","e","s">> >>

\* src/chatboot.py:500  inscripcion, inscripción, matricula, matrícula, registro
registration_words ==
  << <<"i","n","s","c","r","i","p","c","i","o","n">>,
     <<"i","n","s","c","r","i","p","c","i","o'","n">>,
     <<"m","a","t","r","i","c","u","l","a">>,
     <<"m","a","t","r","i'","c","u","l","a">>,
     <<"r","e","g","i","s","t","r","o">> >>

\* The template literals get_fallback_response returns, each named by a token.
ENROLLMENT_STEPS   == <<"[PASOS PARA INSCRIBIRTE]">>
SCHEDULE_CHILDREN  == <<"[HORARIOS PARA NINOS]">>
SCHEDULE_ADULTS    == <<"[HORARIOS PARA ADULTOS]">>
SCHEDULE_ALL       == <<"[HORARIOS COMPLETOS]">>
PRICES             == <<"[PRECIOS]">>
WHAT_TO_BRING      == <<"[QUE TRAER A TU PRIMERA CLASE]">>
EMPHASIS           == <<"[ENFASIS DE NUESTRA ESCUELA]">>
AGES               == <<"[EDADES ACEPTADAS]">>
CONTACT            == <<"[INFORMACION DE CONTACTO]">>
MAKEUP_POLICY      == <<"[POLITICA DE REPOSICION]">>
REGULATIONS        == <<"[INFORMACION SOBRE REGLAMENTOS]">>
REGISTRATION       == <<"[PROCESO DE INSCRIPCION]">>

get_enrollment_flow(step) ==
  IF step = 1 THEN ENROLLMENT_STEPS ELSE <<"[Paso no valido]">>

\* The schedule sub-rules with the adult words tested before the child words.
schedule_response_adult_first(user_lower) ==
  IF AnyIn(adult_words, user_lower) THEN SCHEDULE_ADULTS
  ELSE IF AnyIn(child_words, user_lower) THEN SCHEDULE_CHILDREN
  ELSE SCHEDULE_ALL

\* Lines 302-370: the schedule of the swimmers asked about.
schedule_response(user_lower) ==
  IF AnyIn(child_words, user_lower) THEN SCHEDULE_CHILDREN
  ELSE IF AnyIn(adult_words, user_lower) THEN SCHEDULE_ADULTS
  ELSE SCHEDULE_ALL

\* Lines 372-515: the elif chain after the schedule test.
elif_chain(user_lower) ==
  IF AnyIn(price_words, user_lower) THEN PRICES
  ELSE IF AnyIn(bring_words, user_lower) THEN WHAT_TO_BRING
  ELSE IF AnyIn(emphasis_words, user_lower) THEN EMPHASIS
  ELSE IF AnyIn(age_words, user_lower) THEN AGES
  ELSE IF AnyIn(contact_words, user_lower) THEN CONTACT
  ELSE IF AnyIn(makeup_words, user_lower) THEN MAKEUP_POLICY
  ELSE IF AnyIn(policy_words, user_lower) THEN REGULATIONS
  ELSE IF AnyIn(registration_words, user_lower) THEN REGISTRATION
  ELSE None

\* The chain with the price test moved before the schedule test.
keyword_tests_price_first(user_lower) ==
  IF AnyIn(enrollment_words, user_lower) THEN get_enrollment_flow(1)
  ELSE IF AnyIn(price_words, user_lower) THEN PRICES
  ELSE IF AnyIn(schedule_words, user_lower) THEN schedule_response(user_lower)
  ELSE elif_chain(user_lower)

\* Lines 298-515: the tests made on the lower-cased input, in order.
keyword_tests(user_lower) ==
  IF AnyIn(enrollment_words, user_lower) THEN get_enrollment_flow(1)
  ELSE IF AnyIn(schedule_words, user_lower) THEN schedule_response(user_lower)
  ELSE elif_chain(user_lower)

\* The resolver matching the input as typed.
get_fallback_response_as_typed(user_input) == keyword_tests(user_input)

get_fallback_response(user_input) ==
  LET user_lower == lower(user_input)
  IN  keyword_tests(user_lower)

----------------------------------------------------------------------------
(* The response cache: RedisCache *)

\* What a call hands back: a return value, or an exception leaving it.
Returned(x) == [ret |-> x, exc |-> FALSE]
Raised == [ret |-> None, exc |-> TRUE]

\* RedisCache._connect: the availability decided at construction.
connect(module_installed, ping_answers) ==
  IF ~module_installed THEN FALSE
  ELSE IF ping_answers THEN TRUE
  ELSE FALSE

\* hashlib.md5(...).hexdigest(): a digest that names its input (collisions
\* of the hash are outside the model).
md5(s) == <<"md5", s>>

\* The namespace every key of the chatbot starts with.
KeyPrefix == "chatbot_response:"

\* The key of the query as typed.
generate_key_raw(user_input) ==
  [prefix |-> KeyPrefix, digest |-> md5(user_input)]

\* The key made of the first character of the normalised query.
generate_key_first_letter(user_input) ==
  LET normalized_input == strip(lower(user_input))
  IN  [prefix |-> KeyPrefix, digest |-> md5(SubSeq(normalized_input, 1, 1))]

_generate_key(user_input) ==
  LET normalized_input == strip(lower(user_input))
  IN  [prefix |-> KeyPrefix, digest |-> md5(normalized_input)]

\* The characters json.dumps escapes (ensure_ascii is left at its default).
NonAscii ==
  {"n~","a'","e'","i'","o'","u'","?^","N~","A'","E'","I'","O'","U'"}

\* One character as json.dumps writes it inside a string, and back.
json_escape(c) ==
  IF c = "\"" THEN <<"\\", "\"">>
  ELSE IF c = "\\" THEN <<"\\", "\\">>
  ELSE IF c = "\n" THEN <<"\\", "n">>
  ELSE IF c = "\t" THEN <<"\\", "t">>
  ELSE IF c \in NonAscii THEN <<"\\u", c>>
  ELSE <<c>>

json_unescape(t) ==
  IF Len(t) = 1 THEN t[1]
  ELSE IF t[1] = "\\u" THEN t[2]
  ELSE IF t[2] = "n" THEN "\n"
  ELSE IF t[2] = "t" THEN "\t"
  ELSE t[2]

json_string(s) == [i \in 1..Len(s) |-> json_escape(s[i])]
json_text(e) == [i \in 1..Len(e) |-> json_unescape(e[i])]

\* json.dumps of the dict set_response builds, and json.loads of a stored
\* value: a value that was not written by json.dumps does not decode.
json_dumps(data) ==
  [fmt |-> "json",
   doc |-> [f \in DOMAIN data |->
              IF f = "timestamp" THEN data[f] ELSE json_string(data[f])]]
json_loads(value) ==
  IF value.fmt = "json"
  THEN [exc |-> FALSE,
        val |-> [f \in DOMAIN value.doc |->
                   IF f = "timestamp" THEN value.doc[f]
                   ELSE json_text(value.doc[f])]]
  ELSE [exc |-> TRUE, val |-> [unparsed |-> TRUE]]

\* redis_client.get(key): the value under a key that has not expired, else
\* Python's None.
NoValue == [fmt |-> "nil", doc |-> [nil |-> TRUE]]
Expired(entry, t) == entry.expire_at # -1 /\ entry.expire_at <= t
redis_get(key) ==
  IF key \in DOMAIN store /\ ~Expired(store[key], now)
  THEN store[key].value ELSE NoValue

\* `if cached_data:` is false for None and for the empty string.
ValueTruthy(value) == value.fmt \notin {"nil", "empty"}

\* A write that sets no expiry.
redis_setex_forever(key, ttl, value) ==
  [k \in DOMAIN store \cup {key} |->
     IF k = key THEN [value |-> value, expire_at |-> -1] ELSE store[k]]

\* redis_client.setex(key, ttl, value): write the key, replacing what it
\* held, to expire ttl seconds from now.
redis_setex(key, ttl, value) ==
  [k \in DOMAIN store \cup {key} |->
     IF k = key THEN [value |-> value, expire_at |-> now + ttl] ELSE store[k]]

\* A listing of every key of the server.
redis_keys_all(prefix) == DOMAIN store

\* redis_client.keys("chatbot_response:*")
redis_keys(prefix) == {k \in DOMAIN store : k.prefix = prefix}

\* redis_client.delete(*keys)
redis_delete(keys) == [k \in DOMAIN store \ keys |-> store[k]]

\* The body of get_response's try block; `fails` is the store failing now.
get_response_try(user_input, fails) ==
  IF fails THEN Raised
  ELSE LET key == _generate_key(user_input)
           cached_data == redis_get(key)
       IN  IF ValueTruthy(cached_data)
           THEN LET response_data == json_loads(cached_data)
                IN  IF response_data.exc THEN Raised
                    ELSE IF "response" \notin DOMAIN response_data.val
                         THEN Raised
                    ELSE Returned(response_data.val.response)
           ELSE Returned(None)

\* The lookup with its except clause left out.
get_response_uncaught(user_input, fails) ==
  IF ~cache_available THEN Returned(None)
  ELSE get_response_try(user_input, fails)

get_response(user_input, fails) ==
  IF ~cache_available THEN Returned(None)
  ELSE LET r == get_response_try(user_input, fails)
       IN  IF r.exc THEN Returned(None) ELSE r

\* What set_response and clear_cache hand back: True or False, the store
\* they leave, or an exception.
Done(ok, st) == [flag |-> ok, exc |-> FALSE, store |-> st]
Failed(st) == [flag |-> FALSE, exc |-> TRUE, store |-> st]

\* The write keyed by the query as typed, its normalization forgotten.
set_response_try_raw_key(user_input, response, ttl, fails) ==
  LET key == [prefix |-> KeyPrefix, digest |-> md5(user_input)]
      response_data ==
        [response |-> response, timestamp |-> now, input |-> user_input]
  IN  IF fails THEN Failed(store)
      ELSE Done(TRUE, redis_setex(key, ttl, json_dumps(response_data)))

set_response_try(user_input, response, ttl, fails) ==
  LET key == _generate_key(user_input)
      response_data ==
        [response |-> response, timestamp |-> now, input |-> user_input]
  IN  IF fails THEN Failed(store)
      ELSE Done(TRUE, redis_setex(key, ttl, json_dumps(response_data)))

\* A write that tries the server whenever it answers, connected or not.
set_response_reconnecting(user_input, response, ttl, fails) ==
  IF ~cache_available /\ ~store_up THEN Done(FALSE, store)
  ELSE LET r == set_response_try(user_input, response, ttl, fails)
       IN  IF r.exc THEN Done(FALSE, r.store) ELSE r

set_response(user_input, response, ttl, fails) ==
  IF ~cache_available THEN Done(FALSE, store)
  ELSE LET r == set_response_try(user_input, response, ttl, fails)
       IN  IF r.exc THEN Done(FALSE, r.store) ELSE r

clear_cache_try(keys_fails, delete_fails) ==
  IF keys_fails THEN Failed(store)
  ELSE LET keys == redis_keys(KeyPrefix)
       IN  IF keys # {}
           THEN IF delete_fails THEN Failed(store)
                ELSE Done(TRUE, redis_delete(keys))
           ELSE Done(TRUE, store)

clear_cache(keys_fails, delete_fails) ==
  IF ~cache_available THEN Done(FALSE, store)
  ELSE LET r == clear_cache_try(keys_fails, delete_fails)
       IN  IF r.exc THEN Done(FALSE, r.store) ELSE r

----------------------------------------------------------------------------
(* Document search: LlamaSwimmingBot.search_documents *)

\* LlamaSwimmingBot.vectorstore is None until setup_rag_system hands back an
\* index; an index holds chunks, and its search may raise.
NoIndex == [present |-> FALSE, chunks |-> <<>>, broken |-> FALSE]
Index(chunks, broken) == [present |-> TRUE, chunks |-> chunks, broken |-> broken]

DOC_GENERAL == <<"g","e","n","e","r","a","l">>
DOC_DEFAULT == <<"d","o","c","u","m","e","n","t","o">>

DOC_REGLAMENTO == <<"r","e","g","l","a","m","e","n","t","o">>
DOC_INSCRIPCION == <<"i","n","s","c","r","i","p","c","i","o","n">>
DOC_PRECIOS == <<"p","r","e","c","i","o","s">>

\* The tests of identify_doc_type with the price test made first.
identify_doc_type_precios_first(filename) ==
  LET filename_lower == lower(filename)
  IN  IF Contains(filename_lower, DOC_PRECIOS) THEN DOC_PRECIOS
      ELSE IF Contains(filename_lower, DOC_REGLAMENTO) THEN DOC_REGLAMENTO
      ELSE IF Contains(filename_lower, DOC_INSCRIPCION) THEN DOC_INSCRIPCION
      ELSE DOC_GENERAL

identify_doc_type(filename) ==
  LET filename_lower == lower(filename)
  IN  IF Contains(filename_lower, DOC_REGLAMENTO) THEN DOC_REGLAMENTO
      ELSE IF Contains(filename_lower, DOC_INSCRIPCION) THEN DOC_INSCRIPCION
      ELSE IF Contains(filename_lower, DOC_PRECIOS) THEN DOC_PRECIOS
      ELSE DOC_GENERAL

\* A chunk as setup_rag_system tags it, with a page of n characters.
Page(n) == [i \in 1..n |-> "x"]
Chunk(n) == [metadata |-> [doc_type |-> DOC_GENERAL], page_content |-> Page(n)]

\* doc.metadata.get('doc_type', 'documento')
metadata_get(doc, default) ==
  IF "doc_type" \in DOMAIN doc.metadata THEN doc.metadata.doc_type ELSE default

\* vectorstore.similarity_search(query, k): at most k chunks, the index's
\* order standing for their rank; or an exception.
similarity_search(query, k) ==
  IF vectorstore.broken THEN [exc |-> TRUE, docs |-> <<>>]
  ELSE [exc |-> FALSE,
        docs |-> SubSeq(vectorstore.chunks, 1,
                        IF Len(vectorstore.chunks) < k
                        THEN Len(vectorstore.chunks) ELSE k)]

\* The loop of lines 226-228: one "\n[type]: page\n" per document.
RECURSIVE build_context(_)
build_context(docs) ==
  IF docs = <<>> THEN <<>>
  ELSE build_context(SubSeq(docs, 1, Len(docs) - 1))
       \o <<"\n", "[">> \o metadata_get(docs[Len(docs)], DOC_DEFAULT)
       \o <<"]", ":", " ">> \o docs[Len(docs)].page_content \o <<"\n">>

search_documents_try(query, k) ==
  IF ~vectorstore.present THEN Returned(<<>>)
  ELSE LET found == similarity_search(query, k)
       IN  IF found.exc THEN Raised ELSE Returned(build_context(found.docs))

\* The search with its except clause left out.
search_documents_uncaught(query, k) == search_documents_try(query, k)

search_documents(query, k) ==
  LET r == search_documents_try(query, k)
  IN  IF r.exc THEN Returned(<<>>) ELSE r

----------------------------------------------------------------------------
(* Document setup: setup_rag_system *)

\* A file of the documents folder: its name, the text of its pages, and
\* whether PyPDFLoader can read it.
PdfFile(name, pages, readable) ==
  [name |-> name, pages |-> pages, readable |-> readable]
Folder(files) == [present |-> TRUE, files |-> files]

\* str.endswith
endswith(s, suffix) ==
  Len(s) >= Len(suffix) /\ SubSeq(s, Len(s) - Len(suffix) + 1, Len(s)) = suffix
PDF_SUFFIX == <<".","p","d","f">>

\* What a path of the working directory holds.
Directory == [kind |-> "dir", index |-> NoIndex]
IndexFile(vs) == [kind |-> "faiss", index |-> vs]
DocstoreFile(vs) == [kind |-> "pkl", index |-> vs]

VECTORSTORE_PATH == "club_vectorstore"

\* os.path.exists
path_exists(p) == p \in DOMAIN paths

\* FAISS.save_local(folder_path): makes the directory folder_path and writes
\* index.faiss and index.pkl into it.
save_local(vs, folder_path) ==
  LET written_paths ==
        { folder_path, folder_path \o "/index.faiss",
          folder_path \o "/index.pkl" }
  IN  [p \in DOMAIN paths \cup written_paths |->
         IF p = folder_path THEN Directory
         ELSE IF p = folder_path \o "/index.faiss" THEN IndexFile(vs)
         ELSE IF p = folder_path \o "/index.pkl" THEN DocstoreFile(vs)
         ELSE paths[p]]

\* FAISS.load_local(folder_path, ...): reads index.faiss and index.pkl of
\* the directory folder_path, and raises when they are not there.
load_local(folder_path) ==
  IF /\ folder_path \o "/index.faiss" \in DOMAIN paths
     /\ folder_path \o "/index.pkl" \in DOMAIN paths
     /\ paths[folder_path \o "/index.faiss"].kind = "faiss"
  THEN [exc |-> FALSE, vectorstore |-> paths[folder_path \o "/index.faiss"].index]
  ELSE [exc |-> TRUE, vectorstore |-> NoIndex]

\* PyPDFLoader(pdf_path).load(): one document per page, or an exception.
loader_load(file) ==
  IF file.readable
  THEN [exc |-> FALSE,
        documents |->
          [i \in 1..Len(file.pages) |->
             [metadata |-> [source |-> <<"p","d","f","s","/">> \o file.name],
              page_content |-> file.pages[i]]]]
  ELSE [exc |-> TRUE, documents |-> <<>>]

\* doc.metadata.update({"source": pdf_file, "doc_type": ...})
metadata_update(doc, pdf_file) ==
  [doc EXCEPT !.metadata =
     [source |-> pdf_file, doc_type |-> identify_doc_type(pdf_file)]]

\* The loop of lines 69-85 that gives up at the first file it cannot read.
RECURSIVE load_folder_abort_on_failure(_)
load_folder_abort_on_failure(files) ==
  IF files = <<>> THEN [documents |-> <<>>, warnings |-> <<>>]
  ELSE LET pdf_file == Head(files)
           loaded == loader_load(pdf_file)
       IN  IF ~endswith(pdf_file.name, PDF_SUFFIX)
           THEN load_folder_abort_on_failure(Tail(files))
           ELSE IF loaded.exc
           THEN [documents |-> <<>>, warnings |-> <<pdf_file.name>>]
           ELSE LET rest == load_folder_abort_on_failure(Tail(files))
                IN  [documents |->
                       [i \in DOMAIN loaded.documents |->
                          metadata_update(loaded.documents[i], pdf_file.name)]
                       \o rest.documents,
                     warnings |-> rest.warnings]

\* The loop of lines 69-85: the documents of every .pdf file that loads, a
\* warning for every one that does not.
RECURSIVE load_folder(_)
load_folder(files) ==
  IF files = <<>> THEN [documents |-> <<>>, warnings |-> <<>>]
  ELSE LET pdf_file == Head(files)
           rest == load_folder(Tail(files))
           loaded == loader_load(pdf_file)
       IN  IF ~endswith(pdf_file.name, PDF_SUFFIX) THEN rest
           ELSE IF loaded.exc
           THEN [documents |-> rest.documents,
                 warnings |-> <<pdf_file.name>> \o rest.warnings]
           ELSE [documents |->
                   [i \in DOMAIN loaded.documents |->
                      metadata_update(loaded.documents[i], pdf_file.name)]
                   \o rest.documents,
                 warnings |-> rest.warnings]

CHUNK_SIZE == 1000
CHUNK_OVERLAP == 200

\* RecursiveCharacterTextSplitter on one text: a text of at most chunk_size
\* characters is one chunk, trimmed, and no chunk when nothing is left; a
\* longer one is cut into windows that overlap (the choice of the cutting
\* points by separator is not modelled).
RECURSIVE split_text(_)
split_text(t) ==
  IF Len(t) <= CHUNK_SIZE
  THEN IF strip(t) = <<>> THEN <<>> ELSE <<strip(t)>>
  ELSE <<SubSeq(t, 1, CHUNK_SIZE)>>
       \o split_text(SubSeq(t, CHUNK_SIZE - CHUNK_OVERLAP + 1, Len(t)))

RECURSIVE split_documents(_)
split_documents(documents) ==
  IF documents = <<>> THEN <<>>
  ELSE LET doc == Head(documents)
           pieces == split_text(doc.page_content)
       IN  [i \in DOMAIN pieces |-> [doc EXCEPT !.page_content = pieces[i]]]
           \o split_documents(Tail(documents))

\* FAISS.from_documents(texts, embeddings): raises on an empty list.
from_documents(texts, search_breaks) ==
  IF texts = <<>> THEN [exc |-> TRUE, vectorstore |-> NoIndex]
  ELSE [exc |-> FALSE, vectorstore |-> Index(texts, search_breaks)]

\* What setup_rag_system did and handed back.
Setup(exc, vs, disk, checked, loaded, loading, built, saved) ==
  [exc |-> exc, caught |-> FALSE, vectorstore |-> vs, paths |-> disk,
   checked |-> checked, loaded |-> loaded, documents |-> loading.documents,
   warnings |-> loading.warnings, built |-> built, saved |-> saved]
NothingLoaded == [documents |-> <<>>, warnings |-> <<>>]

\* The body of setup_rag_system's try block (lines 54-103).
setup_rag_system_try(embeddings_fail, save_fails, search_breaks) ==
  LET vectorstore_path == VECTORSTORE_PATH
      checked == vectorstore_path \o ".faiss"
  IN  IF embeddings_fail
      THEN Setup(TRUE, NoIndex, paths, "", FALSE, NothingLoaded, FALSE, FALSE)
      ELSE IF path_exists(checked)
      THEN LET l == load_local(vectorstore_path)
           IN  Setup(l.exc, l.vectorstore, paths, checked, ~l.exc,
                     NothingLoaded, FALSE, FALSE)
      ELSE LET loading == IF pdf_folder.present
                          THEN load_folder(pdf_folder.files)
                          ELSE NothingLoaded
               all_documents == loading.documents
           IN  IF all_documents # <<>>
               THEN LET texts == split_documents(all_documents)
                        built == from_documents(texts, search_breaks)
                    IN  IF built.exc
                        THEN Setup(TRUE, NoIndex, paths, checked, FALSE,
                                   loading, FALSE, FALSE)
                        ELSE IF save_fails
                        THEN Setup(TRUE, NoIndex, paths, checked, FALSE,
                                   loading, TRUE, FALSE)
                        ELSE Setup(FALSE, built.vectorstore,
                                   save_local(built.vectorstore, vectorstore_path),
                                   checked, FALSE, loading, TRUE, TRUE)
               ELSE Setup(FALSE, NoIndex, paths, checked, FALSE, loading,
                          FALSE, FALSE)

\* setup_rag_system: an exception of the body becomes (None, None).
setup_rag_system(embeddings_fail, save_fails, search_breaks) ==
  LET r == setup_rag_system_try(embeddings_fail, save_fails, search_breaks)
  IN  IF r.exc
      THEN [r EXCEPT !.exc = FALSE, !.caught = TRUE, !.vectorstore = NoIndex]
      ELSE r

----------------------------------------------------------------------------
(* The answer composer: LlamaSwimmingBot.generate_response *)

PDF_HEADER == <<"[Informacion encontrada en documentos del club]">>
PDF_FOOTER == <<"[WhatsApp, Email, inscripcion]">>
GENERIC_RESPONSE == <<"[no tengo informacion especifica sobre tu consulta]">>

TTL_INTENT == 7200
TTL_DOCUMENTS == 3600
TTL_GENERIC == 1800
MIN_CONTEXT == 50
DEFAULT_K == 2

\* One call of set_response as generate_response made it.
SetCall(response, ttl, done) == [response |-> response, ttl |-> ttl, ok |-> done.flag]

\* What one request did: the value returned or the exception, the stages
\* entered in order, what each stage produced, the set_response calls made,
\* and the store left behind.
Outcome(ret, exc, stages, cached, fallback, context, sets, st) ==
  [ret |-> ret, exc |-> exc, stages |-> stages, cached |-> cached,
   fallback |-> fallback, context |-> context, sets |-> sets, store |-> st]

\* Queries sent to the bot: two spellings of a schedule question and two of
\* a greeting no keyword group knows.
Q_Horarios == <<"H","o","r","a","r","i","o","s">>
Q_horarios_ == <<"h","o","r","a","r","i","o","s"," ">>
Q_hola == <<"h","o","l","a">>
Q__HOLA == <<" ","H","O","L","A">>
UserInputs == {Q_Horarios, Q_horarios_, Q_hola, Q__HOLA}

\* The queries of the quick-query buttons of main.
\* src/chatboot.py:1161  ¿Cuáles son los horarios de funcionamiento?
B_Schedule ==
  <<"?^","C","u","a'","l","e","s"," ","s","o","n"," ","l","o","s"," ","h",
    "o","r","a","r","i","o","s"," ","d","e"," ","f","u","n","c","i","o","n",
    "a","m","i","e","n","t","o","?">>
\* src/chatboot.py:1165  ¿Cuáles son los horarios de niños?
B_ScheduleChildren ==
  <<"?^","C","u","a'","l","e","s"," ","s","o","n"," ","l","o","s"," ","h",
    "o","r","a","r","i","o","s"," ","d","e"," ","n","i","n~","o","s","?">>
\* src/chatboot.py:1169  ¿Cuáles son los horarios de adultos?
B_ScheduleAdults ==
  <<"?^","C","u","a'","l","e","s"," ","s","o","n"," ","l","o","s"," ","h",
    "o","r","a","r","i","o","s"," ","d","e"," ","a","d","u","l","t","o","s",
    "?">>
\* src/chatboot.py:1174  ¿Cuáles son los precios del mes por frecuencia semanal?
B_Prices ==
  <<"?^","C","u","a'","l","e","s"," ","s","o","n"," ","l","o","s"," ","p",
    "r","e","c","i","o","s"," ","d","e","l"," ","m","e","s"," ","p","o","r",
    " ","f","r","e","c","u","e","n","c","i","a"," ","s","e","m","a","n","a",
    "l","?">>
\* src/chatboot.py:1178  ¿Cuál es el énfasis de la Escuela de Natación MNM?
B_Emphasis ==
  <<"?^","C","u","a'","l"," ","e","s"," ","e","l"," ","e'","n","f","a","s",
    "i","s"," ","d","e"," ","l","a"," ","E","s","c","u","e","l","a"," ","d",
    "e"," ","N","a","t","a","c","i","o'","n"," ","M","N","M","?">>
\* src/chatboot.py:1182  ¿Cómo me inscribo?
B_Enrollment ==
  <<"?^","C","o'","m","o"," ","m","e"," ","i","n","s","c","r","i","b","o",
    "?">>
\* src/chatboot.py:1187  ¿Qué debo traer a mi primera clase de natación?
B_FirstClass ==
  <<"?^","Q","u","e'"," ","d","e","b","o"," ","t","r","a","e","r"," ","a",
    " ","m","i"," ","p","r","i","m","e","r","a"," ","c","l","a","s","e"," ",
    "d","e"," ","n","a","t","a","c","i","o'","n","?">>
\* src/chatboot.py:1191  política de reposición
B_Makeup ==
  <<"p","o","l","i'","t","i","c","a"," ","d","e"," ","r","e","p","o","s",
    "i","c","i","o'","n">>
\* src/chatboot.py:1195  ¿Desde qué edad aceptan niños?
B_Ages ==
  <<"?^","D","e","s","d","e"," ","q","u","e'"," ","e","d","a","d"," ","a",
    "c","e","p","t","a","n"," ","n","i","n~","o","s","?">>
QuickQueries ==
  << B_Schedule, B_ScheduleChildren, B_ScheduleAdults, B_Prices, B_Emphasis,
     B_Enrollment, B_FirstClass, B_Makeup, B_Ages >>

\* Every query the bot is sent in a run.
KnownInputs == UserInputs \cup {QuickQueries[b] : b \in DOMAIN QuickQueries}

\* get_fallback_response on each of these queries, tabulated.
fallback_of == [q \in KnownInputs |-> get_fallback_response(q)]

\* A hit that writes the entry back, renewing its time to live.
cache_hit_rewrites(user_input, cached_response) ==
  LET w == set_response(user_input, cached_response, TTL_INTENT, FALSE)
  IN  Outcome(cached_response, FALSE, <<"CacheLookup">>, cached_response,
              None, <<>>, <<SetCall(cached_response, TTL_INTENT, w)>>, w.store)

\* Lines 524-526: a cached response is returned as it is.
cache_hit(user_input, cached_response) ==
  Outcome(cached_response, FALSE, <<"CacheLookup">>, cached_response, None,
          <<>>, <<>>, store)

\* The intent branch with set_response's default ttl.
intent_answer_default_ttl(user_input, cached_response, fallback, set_fails) ==
  LET w == set_response(user_input, fallback, TTL_DOCUMENTS, set_fails)
  IN  Outcome(IF w.exc THEN None ELSE fallback, w.exc,
              <<"CacheLookup", "IntentMatch">>, cached_response, fallback,
              <<>>, <<SetCall(fallback, TTL_DOCUMENTS, w)>>, w.store)

\* Lines 530-534: the template of the intent resolver, cached for two hours.
intent_answer(user_input, cached_response, fallback, set_fails) ==
  LET w == set_response(user_input, fallback, TTL_INTENT, set_fails)
  IN  Outcome(IF w.exc THEN None ELSE fallback, w.exc,
              <<"CacheLookup", "IntentMatch">>, cached_response, fallback,
              <<>>, <<SetCall(fallback, TTL_INTENT, w)>>, w.store)

\* Lines 541-555: the retrieved context in the document template, cached
\* for one hour.
documents_answer(user_input, cached_response, fallback, document_context, set_fails) ==
  LET pdf_response == PDF_HEADER \o document_context \o PDF_FOOTER
      w == set_response(user_input, pdf_response, TTL_DOCUMENTS, set_fails)
  IN  Outcome(IF w.exc THEN None ELSE pdf_response, w.exc,
              <<"CacheLookup", "IntentMatch", "Retrieval">>, cached_response,
              fallback, document_context,
              <<SetCall(pdf_response, TTL_DOCUMENTS, w)>>, w.store)

\* Lines 557-575: the generic response, cached for half an hour.
generic_answer(user_input, cached_response, fallback, document_context, set_fails) ==
  LET generic_response == GENERIC_RESPONSE
      w == set_response(user_input, generic_response, TTL_GENERIC, set_fails)
  IN  Outcome(IF w.exc THEN None ELSE generic_response, w.exc,
              <<"CacheLookup", "IntentMatch", "Retrieval", "GenericFallback">>,
              cached_response, fallback, document_context,
              <<SetCall(generic_response, TTL_GENERIC, w)>>, w.store)

\* The retrieval branch taking whatever the search gave for a context.
retrieval_any_context(user_input, cached_response, fallback, set_fails) ==
  LET searched == search_documents(user_input, DEFAULT_K)
  IN  documents_answer(user_input, cached_response, fallback, searched.ret,
                       set_fails)

\* The retrieval branch content with a context of the least length itself.
retrieval_at_least(user_input, cached_response, fallback, set_fails) ==
  LET searched == search_documents(user_input, DEFAULT_K)
      document_context == searched.ret
  IN  IF Truthy(document_context)
         /\ Len(strip(document_context)) >= MIN_CONTEXT
      THEN documents_answer(user_input, cached_response, fallback,
                            document_context, set_fails)
      ELSE generic_answer(user_input, cached_response, fallback,
                          document_context, set_fails)

\* Lines 536-575: no template matched, so search the documents.
retrieval(user_input, cached_response, fallback, set_fails) ==
  LET searched == search_documents(user_input, DEFAULT_K)
      document_context == searched.ret
  IN  IF searched.exc
      THEN Outcome(None, TRUE, <<"CacheLookup", "IntentMatch", "Retrieval">>,
                   cached_response, fallback, <<>>, <<>>, store)
      ELSE IF Truthy(document_context)
              /\ Len(strip(document_context)) > MIN_CONTEXT
      THEN documents_answer(user_input, cached_response, fallback,
                            document_context, set_fails)
      ELSE generic_answer(user_input, cached_response, fallback,
                          document_context, set_fails)

\* Lines 528-575: the cache gave nothing, so ask the intent resolver.
cache_miss(user_input, cached_response, set_fails) ==
  LET fallback == fallback_of[user_input]
  IN  IF Truthy(fallback)
      THEN intent_answer(user_input, cached_response, fallback, set_fails)
      ELSE retrieval(user_input, cached_response, fallback, set_fails)

\* The composer asking the intent resolver before the cache.
generate_response_intent_first(user_input, get_fails, set_fails) ==
  LET fallback == fallback_of[user_input]
  IN  IF Truthy(fallback)
      THEN intent_answer(user_input, None, fallback, set_fails)
      ELSE LET cached == get_response(user_input, get_fails)
           IN  IF Truthy(cached.ret) THEN cache_hit(user_input, cached.ret)
               ELSE retrieval(user_input, cached.ret, fallback, set_fails)

\* The composer taking every cached value but None for a hit.
generate_response_any_cached(user_input, get_fails, set_fails) ==
  LET cached == get_response(user_input, get_fails)
      cached_response == cached.ret
  IN  IF cached.exc
      THEN Outcome(None, TRUE, <<"CacheLookup">>, None, None, <<>>, <<>>, store)
      ELSE IF cached_response # None
      THEN cache_hit(user_input, cached_response)
      ELSE cache_miss(user_input, cached_response, set_fails)

generate_response(user_input, get_fails, set_fails) ==
  LET cached == get_response(user_input, get_fails)
      cached_response == cached.ret
  IN  IF cached.exc
      THEN Outcome(None, TRUE, <<"CacheLookup">>, None, None, <<>>, <<>>, store)
      ELSE IF Truthy(cached_response)
      THEN cache_hit(user_input, cached_response)
      ELSE cache_miss(user_input, cached_response, set_fails)

----------------------------------------------------------------------------
(* The session transcript: process_message *)

\* One entry of st.session_state.messages.
Turn(role, content) == [role |-> role, content |-> content]

\* process_message keeping the query in the form the cache key is made of.
process_message_normalized(user_input, get_fails, set_fails) ==
  LET with_user == Append(messages, Turn("user", strip(lower(user_input))))
      o == generate_response(user_input, get_fails, set_fails)
  IN  IF o.exc THEN [messages |-> with_user, o |-> o]
      ELSE [messages |-> Append(with_user, Turn("assistant", o.ret)), o |-> o]

\* Lines 1223-1236: the user's turn is appended, the response generated and
\* appended as the assistant's turn; an exception of generate_response would
\* leave the user's turn alone in the transcript.
process_message(user_input, get_fails, set_fails) ==
  LET with_user == Append(messages, Turn("user", user_input))
      o == generate_response(user_input, get_fails, set_fails)
  IN  IF o.exc THEN [messages |-> with_user, o |-> o]
      ELSE [messages |-> Append(with_user, Turn("assistant", o.ret)), o |-> o]

----------------------------------------------------------------------------
(* The state machine *)

\* Bounds of the model.
MaxTicks == 2      \* clock steps taken in one run
MaxWords == 2      \* words in a query put to the intent resolver
MaxEdits == 2      \* respelling steps applied to a query

\* The clock advances in steps of half an hour.
TickSteps == {1800}

\* The indexes setup_rag_system may have handed to the bot: none, one whose
\* search raises, and indexes of one or two chunks around the length the
\* composer asks of a context.
IndexChoices ==
  { NoIndex, Index(<<Chunk(40)>>, TRUE), Index(<<Chunk(39)>>, FALSE),
    Index(<<Chunk(40)>>, FALSE), Index(<<Chunk(5), Chunk(5), Chunk(40)>>, FALSE) }

\* A key of another application sharing the Redis server.
ForeignKey == [prefix |-> "session:", digest |-> md5(<<"u","1">>)]
ForeignEntry == [value |-> [fmt |-> "garbage", doc |-> [nil |-> TRUE]], expire_at |-> -1]

EmptyStore == [k \in {} |-> ForeignEntry]
InitialStores == {EmptyStore}

\* The record of the last operation.
Log(op, input, ret, flag, raised, get_failed, o) ==
  [op |-> op, input |-> input, ret |-> ret, flag |-> flag, raised |-> raised,
   get_failed |-> get_failed, stages |-> o.stages, cached |-> o.cached,
   fallback |-> o.fallback, context |-> o.context, sets |-> o.sets]
Nothing == Outcome(None, FALSE, <<>>, None, None, <<>>, <<>>, EmptyStore)
Idle(op) == Log(op, <<>>, None, FALSE, FALSE, FALSE, Nothing)

NoHistory == [k \in {} |-> [response |-> None, at |-> 0, ttl |-> 0, stored |-> FALSE]]

\* The document setup not yet run, on a working directory without documents,
\* and a session that has not begun.
NoFolder == [present |-> FALSE, files |-> <<>>]
NotStarted ==
  [started |-> FALSE, checked |-> "", loaded |-> FALSE, documents |-> <<>>,
   warnings |-> <<>>, built |-> FALSE, saved |-> FALSE, failed |-> FALSE,
   startups |-> 0]
AppIdle ==
  /\ paths = {} /\ pdf_folder = NoFolder /\ rag = NotStarted
  /\ messages = <<>>

ResolverIdle ==
  /\ text = <<>> /\ variant = <<>> /\ edits = 0
  /\ answer = None /\ variant_answer = None

\* The bot as LlamaSwimmingBot() and setup_rag_system leave it.
Constructed(stores, indexes) ==
  /\ redis_installed \in BOOLEAN
  /\ store_up \in BOOLEAN
  /\ cache_available = connect(redis_installed, store_up)
  /\ store \in stores
  /\ now = 0
  /\ vectorstore \in indexes
  /\ last = Idle("init")
  /\ asked = NoHistory
  /\ written = NoHistory

Init == Constructed(InitialStores, IndexChoices) /\ ResolverIdle /\ AppIdle

\* Redis drops the keys whose time has come.
Purge(st, t) == [k \in {k \in DOMAIN st : ~Expired(st[k], t)} |-> st[k]]
Forget(h, t) == [k \in {k \in DOMAIN h : t < h[k].at + h[k].ttl} |-> h[k]]

Tick ==
  \E d \in TickSteps :
    /\ now + d <= MaxTicks * 1800
    /\ now' = now + d
    /\ store' = Purge(store, now + d)
    /\ written' = Forget(written, now + d)
    /\ asked' = Forget(asked, now + d)
    /\ last' = Idle("tick")
    /\ UNCHANGED << paths, pdf_folder, rag, messages, redis_installed, store_up, cache_available, vectorstore,
                    text, variant, edits, answer, variant_answer >>

\* The Redis server goes away, and comes back.
StoreGoesDown ==
  /\ store_up /\ store_up' = FALSE
  /\ last' = Idle("store_down")
  /\ UNCHANGED << paths, pdf_folder, rag, messages, redis_installed, cache_available, store, now, vectorstore,
                  asked, written, text, variant, edits, answer, variant_answer >>

StoreComesBack ==
  /\ ~store_up /\ store_up' = TRUE
  /\ last' = Idle("store_up")
  /\ UNCHANGED << paths, pdf_folder, rag, messages, redis_installed, cache_available, store, now, vectorstore,
                  asked, written, text, variant, edits, answer, variant_answer >>

\* Whether a store operation attempted now fails: none is attempted without
\* a connection; with the server away each fails; with the server up one
\* may fail all the same (a timeout, a reset).
Failures ==
  IF ~cache_available THEN {FALSE}
  ELSE IF store_up THEN BOOLEAN ELSE {TRUE}

\* One request: a call of generate_response, as process_message makes it.
GenerateResponse ==
  \E user_input \in UserInputs, get_fails \in Failures, set_fails \in Failures :
    /\ \E o \in {generate_response(user_input, get_fails, set_fails)} :
       LET key == _generate_key(user_input)
           fresh == ~o.exc /\ Len(o.stages) > 1
       IN  /\ store' = o.store
           /\ last' = Log("generate_response", user_input, o.ret, FALSE, o.exc,
                          get_fails, o)
           /\ asked' =
                IF fresh
                THEN [k \in DOMAIN asked \cup {key} |->
                        IF k = key
                        THEN [response |-> o.ret, at |-> now,
                              ttl |-> o.sets[1].ttl, stored |-> o.sets[1].ok]
                        ELSE asked[k]]
                ELSE asked
    /\ UNCHANGED << paths, pdf_folder, rag, messages, redis_installed, store_up, cache_available, now,
                    vectorstore, written, text, variant, edits, answer,
                    variant_answer >>

Next == GenerateResponse \/ Tick \/ StoreGoesDown \/ StoreComesBack

Spec == Init /\ [][Next]_vars

----------------------------------------------------------------------------
(* The response cache on its own: calls of RedisCache's three methods *)

\* A response with characters json.dumps escapes.
R_Special == <<"S", "i'", "\"", "\n">>

CacheInputs == {Q_Horarios, Q_horarios_, Q_hola}
CacheResponses == {GENERIC_RESPONSE, R_Special}
CacheTtls == {TTL_GENERIC, TTL_DOCUMENTS}

\* The Redis server holds a key of another application.
SharedStore == [k \in {ForeignKey} |-> ForeignEntry]

InitCache == Constructed({SharedStore}, {NoIndex}) /\ ResolverIdle /\ AppIdle

\* The query as the cache is meant to tell queries apart.
Normalize(q) == strip(lower(q))

\* The record of a clear_cache call: the number of entries it removed.
Removed(n) == [Nothing EXCEPT !.cached = <<"entries", n>>]

SetResponse ==
  \E user_input \in CacheInputs, response \in CacheResponses,
     ttl \in CacheTtls, fails \in Failures :
    /\ \E o \in {set_response(user_input, response, ttl, fails)} :
         /\ store' = o.store
         /\ last' = Log("set_response", user_input, None, o.flag, o.exc, fails,
                        [Nothing EXCEPT !.sets = <<SetCall(response, ttl, o)>>])
         /\ written' =
              IF o.flag
              THEN [n \in DOMAIN written \cup {Normalize(user_input)} |->
                      IF n = Normalize(user_input)
                      THEN [response |-> response, at |-> now, ttl |-> ttl,
                            stored |-> TRUE]
                      ELSE written[n]]
              ELSE written
    /\ UNCHANGED << paths, pdf_folder, rag, messages, redis_installed, store_up, cache_available, now,
                    vectorstore, asked, text, variant, edits, answer,
                    variant_answer >>

GetResponse ==
  \E user_input \in CacheInputs, fails \in Failures :
    /\ \E o \in {get_response(user_input, fails)} :
         last' = Log("get_response", user_input, o.ret, FALSE, o.exc, fails,
                     Nothing)
    /\ UNCHANGED << paths, pdf_folder, rag, messages, redis_installed, store_up, cache_available, store, now,
                    vectorstore, asked, written, text, variant, edits, answer,
                    variant_answer >>

ClearCache ==
  \E keys_fails \in Failures, delete_fails \in Failures :
    /\ \E o \in {clear_cache(keys_fails, delete_fails)} :
         /\ store' = o.store
         /\ last' = Log("clear_cache", <<>>, None, o.flag, o.exc,
                        keys_fails \/ (delete_fails /\ redis_keys(KeyPrefix) # {}),
                        Removed(Cardinality(DOMAIN store \ DOMAIN o.store)))
         /\ written' = IF o.flag THEN NoHistory ELSE written
    /\ UNCHANGED << paths, pdf_folder, rag, messages, redis_installed, store_up, cache_available, now,
                    vectorstore, asked, text, variant, edits, answer,
                    variant_answer >>

NextCache ==
  SetResponse \/ GetResponse \/ ClearCache \/ Tick \/ StoreGoesDown
    \/ StoreComesBack

SpecCache == InitCache /\ [][NextCache]_vars

----------------------------------------------------------------------------
(* The intent resolver on its own: get_fallback_response on built queries *)

\* One keyword of each list of get_fallback_response, a word no list knows,
\* an accented and a capital spelling.
Vocabulary ==
  { enrollment_words[7], schedule_words[1], child_words[1], adult_words[1],
    price_words[1], bring_words[4], emphasis_words[3], age_words[1],
    contact_words[4], makeup_words[3], policy_words[2],
    registration_words[5], Q_hola, <<"P","R","E","C","I","O">>,
    <<"N","I","N~","A">> }

RECURSIVE Phrases(_)
Phrases(n) ==
  IF n = 1 THEN Vocabulary
  ELSE LET shorter == Phrases(n - 1)
       IN  shorter \cup {p \o <<" ">> \o w : p \in shorter, w \in Vocabulary}

\* The bot constructed without Redis and without documents, nothing asked.
BotIdle ==
  /\ redis_installed = FALSE /\ store_up = FALSE
  /\ cache_available = connect(redis_installed, store_up)
  /\ store = EmptyStore /\ now = 0 /\ vectorstore = NoIndex
  /\ last = Idle("init") /\ asked = NoHistory /\ written = NoHistory

InitResolve ==
  /\ BotIdle /\ AppIdle
  /\ text \in Phrases(MaxWords)
  /\ variant = text /\ edits = 0
  /\ answer = None /\ variant_answer = None

Resolve ==
  /\ last.op = "init"
  /\ answer' = get_fallback_response(text)
  /\ variant_answer' = get_fallback_response(variant)
  /\ last' = Log("get_fallback_response", variant, variant_answer', FALSE,
                 FALSE, FALSE, Nothing)
  /\ UNCHANGED << paths, pdf_folder, rag, messages, redis_installed, store_up, cache_available, store, now,
                  vectorstore, asked, written, text, variant, edits >>

SpecResolve == InitResolve /\ [][Resolve]_vars

\* Schedule questions: a schedule keyword followed by up to MaxWords words
\* that name children, name adults, ask to enrol or name nobody; and the
\* question of the children's schedule button.
RECURSIVE ScheduleTails(_)
ScheduleTails(n) ==
  IF n = 0 THEN {<<>>}
  ELSE LET shorter == ScheduleTails(n - 1)
           words == {child_words[k] : k \in DOMAIN child_words}
                      \cup {adult_words[k] : k \in DOMAIN adult_words}
                      \cup {enrollment_words[7], <<"c","l","u","b">>,
                            <<"A","d","u","l","t","o","s">>}
       IN  shorter \cup {t \o <<" ">> \o w : t \in shorter, w \in words}

ScheduleQueries ==
  {B_ScheduleChildren}
    \cup { schedule_words[k] \o t :
            k \in DOMAIN schedule_words, t \in ScheduleTails(MaxWords) }

InitSchedule ==
  /\ BotIdle /\ AppIdle
  /\ text \in ScheduleQueries
  /\ variant = text /\ edits = 0
  /\ answer = None /\ variant_answer = None

SpecSchedule == InitSchedule /\ [][Resolve]_vars

\* Questions about registering: up to MaxWords words among the keywords of
\* the last group, in small letters and in capitals, keywords of groups
\* tested before it and a word of no group.
RegistrationVocabulary ==
  {registration_words[k] : k \in DOMAIN registration_words}
    \cup { <<"I","N","S","C","R","I","P","C","I","O'","N">>,
           <<"M","a","t","r","i'","c","u","l","a","s">>,
           schedule_words[1], price_words[1], policy_words[1], Q_hola }

RECURSIVE RegistrationQueries(_)
RegistrationQueries(n) ==
  IF n = 1 THEN RegistrationVocabulary
  ELSE LET shorter == RegistrationQueries(n - 1)
       IN  shorter \cup
             {p \o <<" ">> \o w : p \in shorter, w \in RegistrationVocabulary}

InitRegistration ==
  /\ BotIdle /\ AppIdle
  /\ text \in RegistrationQueries(MaxWords)
  /\ variant = text /\ edits = 0
  /\ answer = None /\ variant_answer = None

SpecRegistration == InitRegistration /\ [][Resolve]_vars

\* Respellings of a query: the case of one letter changed, a whitespace
\* character put before or after.
BaseQueries ==
  { Q_Horarios,
    <<"p","r","e","c","i","o"," ","n","i","n~","a">>,
    <<"q","u","e'"," ","a","p","r","e","n","d","o">>,
    <<"h","o","r","a"," ","n","i","n~","o">> }

swapcase_char(c) == IF lower_char(c) # c THEN lower_char(c) ELSE upper_char(c)

InitVariants ==
  /\ BotIdle /\ AppIdle
  /\ text \in BaseQueries
  /\ variant = text /\ edits = 0
  /\ answer = None /\ variant_answer = None

Respell(v) ==
  /\ last.op = "init"
  /\ edits < MaxEdits
  /\ v # variant
  /\ variant' = v
  /\ edits' = edits + 1
  /\ UNCHANGED << paths, pdf_folder, rag, messages, redis_installed, store_up, cache_available, store, now,
                  vectorstore, last, asked, written, text, answer,
                  variant_answer >>

ChangeCase ==
  \E i \in 1..Len(variant) :
    Respell([variant EXCEPT ![i] = swapcase_char(variant[i])])

PadLeft == \E w \in Whitespace : Respell(<<w>> \o variant)

PadRight == \E w \in Whitespace : Respell(variant \o <<w>>)

NextVariants == ChangeCase \/ PadLeft \/ PadRight \/ Resolve

SpecVariants == InitVariants /\ [][NextVariants]_vars

----------------------------------------------------------------------------
(* identify_doc_type on its own, on built file names *)

\* Parts of file names: the three type words, spellings of them in capitals
\* and with an accent, and words of no type.
NameParts ==
  { DOC_REGLAMENTO, DOC_INSCRIPCION, DOC_PRECIOS,
    <<"R","e","g","l","a","m","e","n","t","o">>, <<"P","R","E","C","I","O","S">>, <<"I","n","s","c","r","i","p","c","i","o","n">>, <<"i","n","s","c","r","i","p","c","i","o'","n">>, <<"g","e","n","e","r","a","l">>, <<"c","l","u","b">> }

RECURSIVE FileNames(_)
FileNames(n) ==
  IF n = 1 THEN NameParts
  ELSE LET shorter == FileNames(n - 1)
       IN  shorter \cup {p \o <<"_">> \o w : p \in shorter, w \in NameParts}

upper(s) == [i \in 1..Len(s) |-> upper_char(s[i])]

InitDocType ==
  /\ BotIdle /\ AppIdle
  /\ text \in FileNames(MaxWords)
  /\ variant \in {upper(text), lower(text)}
  /\ edits = 0
  /\ answer = None /\ variant_answer = None

IdentifyDocType ==
  /\ last.op = "init"
  /\ answer' = identify_doc_type(text)
  /\ variant_answer' = identify_doc_type(variant)
  /\ last' = Log("identify_doc_type", text, answer', FALSE, FALSE, FALSE,
                 Nothing)
  /\ UNCHANGED << paths, pdf_folder, rag, messages, redis_installed, store_up,
                  cache_available, store, now, vectorstore, asked, written,
                  text, variant, edits >>

SpecDocType == InitDocType /\ [][IdentifyDocType]_vars

----------------------------------------------------------------------------
(* Startups of the application and the requests that follow them *)

MaxStartups == 2   \* times the application is started in one run
MaxMessages == 2   \* messages processed in one session

\* The files a documents folder may hold: two PDF files and a text file.
F_Reglamento ==
  <<"R","e","g","l","a","m","e","n","t","o","_","2","0","2","4",".","p","d","f">>
F_Precios == <<"p","r","e","c","i","o","s",".","p","d","f">>
F_Notas == <<"n","o","t","a","s",".","t","x","t">>

\* The folders: each of the three files there or not, each PDF file
\* readable or not.
FolderChoices ==
  {NoFolder} \cup
  { Folder( (IF a = "no" THEN <<>>
             ELSE <<PdfFile(F_Reglamento, <<Page(40)>>, a = "ok")>>)
            \o (IF b = "no" THEN <<>>
                ELSE <<PdfFile(F_Precios, <<Page(5), Page(39)>>, b = "ok")>>)
            \o (IF c THEN <<PdfFile(F_Notas, <<Page(5)>>, TRUE)>> ELSE <<>>) )
    : a \in {"no", "ok", "bad"}, b \in {"no", "ok", "bad"}, c \in BOOLEAN }

\* The working directory: empty, or holding a file club_vectorstore.faiss,
\* alone or beside a directory an index was saved to.
NoPaths == [p \in {} |-> Directory]
DiskChoices ==
  { NoPaths,
    [p \in {"club_vectorstore.faiss"} |-> IndexFile(Index(<<Chunk(40)>>, FALSE))],
    [p \in {"club_vectorstore.faiss", "club_vectorstore",
            "club_vectorstore/index.faiss", "club_vectorstore/index.pkl"} |->
       IF p = "club_vectorstore" THEN Directory
       ELSE IF p = "club_vectorstore/index.pkl"
       THEN DocstoreFile(Index(<<Chunk(40)>>, FALSE))
       ELSE IndexFile(Index(<<Chunk(40)>>, FALSE))] }

InitRag ==
  /\ BotIdle /\ ResolverIdle
  /\ paths \in DiskChoices
  /\ pdf_folder \in FolderChoices
  /\ rag = NotStarted
  /\ messages = <<>>

\* main, lines 1133-1140, in a new process: the bot is constructed, the
\* documents are set up, the transcript starts empty.
Startup ==
  \E embeddings_fail \in BOOLEAN, save_fails \in BOOLEAN,
     search_breaks \in BOOLEAN :
    /\ rag.startups < MaxStartups
    /\ \E r \in {setup_rag_system(embeddings_fail, save_fails, search_breaks)} :
         /\ vectorstore' = r.vectorstore
         /\ paths' = r.paths
         /\ rag' = [started |-> TRUE, checked |-> r.checked,
                    loaded |-> r.loaded, documents |-> r.documents,
                    warnings |-> r.warnings, built |-> r.built,
                    saved |-> r.saved, failed |-> r.caught,
                    startups |-> rag.startups + 1]
    /\ cache_available' = connect(redis_installed, store_up)
    /\ messages' = <<>>
    /\ last' = Idle("startup")
    /\ UNCHANGED << pdf_folder, redis_installed, store_up, store, now, asked,
                    written, text, variant, edits, answer, variant_answer >>

\* A request to the bot that was started.
Ask == rag.started /\ GenerateResponse

NextRag == Startup \/ Ask

SpecRag == InitRag /\ [][NextRag]_vars

----------------------------------------------------------------------------
(* One session: quick-query buttons and the chat input *)

\* The indexes of the session's bot: none, and one with enough text.
SessionIndexes == {NoIndex, Index(<<Chunk(5), Chunk(5), Chunk(40)>>, FALSE)}

\* main, lines 1133-1140, has run: the bot is in the session and the
\* transcript is empty.
InitSession ==
  /\ Constructed({EmptyStore}, SessionIndexes)
  /\ ResolverIdle
  /\ paths = NoPaths /\ pdf_folder = NoFolder
  /\ rag = [NotStarted EXCEPT !.started = TRUE, !.startups = 1]
  /\ messages = <<>>

\* One run of process_message, up to st.rerun().
ProcessMessage(user_input) ==
  /\ Len(messages) < 2 * MaxMessages
  /\ \E get_fails \in Failures, set_fails \in Failures :
       \E r \in {process_message(user_input, get_fails, set_fails)} :
         /\ messages' = r.messages
         /\ store' = r.o.store
         /\ last' = Log("process_message", user_input, r.o.ret, FALSE,
                        r.o.exc, get_fails, r.o)
  /\ UNCHANGED << paths, pdf_folder, rag, redis_installed, store_up,
                  cache_available, now, vectorstore, asked, written, text,
                  variant, edits, answer, variant_answer >>

\* Lines 1159-1196: a quick-query button is pressed.
PressButton == \E b \in DOMAIN QuickQueries : ProcessMessage(QuickQueries[b])

\* Lines 1220-1221: a question is typed into the chat input.
ChatInput == \E prompt \in UserInputs : Truthy(prompt) /\ ProcessMessage(prompt)

NextSession == PressButton \/ ChatInput

SpecSession == InitSession /\ [][NextSession]_vars

----------------------------------------------------------------------------
(* Requests to a bot whose store holds values it cannot use *)

\* What another writer may have left under a chatbot key: bytes that are not
\* JSON, a document without the response field, a document with an empty
\* response, an empty string.
UnusableValues(q) ==
  { [fmt |-> "garbage", doc |-> [nil |-> TRUE]],
    json_dumps([timestamp |-> 0, input |-> q]),
    json_dumps([response |-> <<>>, timestamp |-> 0, input |-> q]),
    [fmt |-> "empty", doc |-> [nil |-> TRUE]] }

\* The stores with such a value, kept without expiry, under the key of a
\* query with an intent match, of one without, or of both.
UnusableStores ==
  LET entries(q) ==
        {[value |-> v, expire_at |-> -1] : v \in UnusableValues(q)}
      one(q) == {[k \in {_generate_key(q)} |-> e] : e \in entries(q)}
  IN  one(Q_Horarios) \cup one(Q_hola)
        \cup { [k \in {_generate_key(Q_Horarios), _generate_key(Q_hola)} |->
                 IF k = _generate_key(Q_hola) THEN e2 ELSE e1]
               : e1 \in entries(Q_Horarios), e2 \in entries(Q_hola) }

RepairIndexes ==
  {NoIndex, Index(<<Chunk(39)>>, FALSE), Index(<<Chunk(5), Chunk(5), Chunk(40)>>, FALSE)}

InitRepair ==
  /\ Constructed(UnusableStores, RepairIndexes)
  /\ ResolverIdle /\ AppIdle

SpecRepair == InitRepair /\ [][GenerateResponse]_vars

----------------------------------------------------------------------------
(* Properties of the answer composer *)

\* The keyword groups in the order the specification gives them.
KeywordGroups ==
  << enrollment_words, schedule_words, price_words, bring_words,
     emphasis_words, age_words, contact_words, makeup_words, policy_words,
     registration_words >>

MatchesGroup(g, q) == AnyIn(KeywordGroups[g], lower(q))
MatchesNoGroup(q) == \A g \in 1..Len(KeywordGroups) : ~MatchesGroup(g, q)
UnmatchedInputs == {q \in UserInputs : MatchesNoGroup(q)}

IsRequest(l) == l.op = "generate_response"

\* C1: every call of generate_response returns a non-empty text and raises
\* nothing, whatever the cache and the index do; with the cache out of reach
\* and retrieval out of order, a query of no intent group gets the generic
\* response.
C1_AlwaysAnswers ==
  IsRequest(last) =>
    /\ ~last.raised
    /\ Truthy(last.ret)
    /\ ( /\ last.input \in UnmatchedInputs
         /\ ~cache_available \/ last.get_failed
         /\ ~vectorstore.present \/ vectorstore.broken )
       => last.ret = GENERIC_RESPONSE

C1_Witness ==
  /\ IsRequest(last) /\ cache_available /\ last.get_failed
  /\ Len(last.sets) = 1 /\ ~last.sets[1].ok
  /\ vectorstore.broken
  /\ last.ret = GENERIC_RESPONSE

\* The response a cache lookup for q would find in the store, if any.
Stored(q) ==
  LET k == _generate_key(q)
  IN  IF /\ cache_available
         /\ k \in DOMAIN store
         /\ ~Expired(store[k], now)
         /\ store[k].value.fmt = "json"
         /\ "response" \in DOMAIN store[k].value.doc
      THEN json_loads(store[k].value).val.response
      ELSE None

StagePaths ==
  { <<"CacheLookup">>,
    <<"CacheLookup", "IntentMatch">>,
    <<"CacheLookup", "IntentMatch", "Retrieval">>,
    <<"CacheLookup", "IntentMatch", "Retrieval", "GenericFallback">> }

UsableContext(c) == Truthy(c) /\ Len(strip(c)) > 50

\* C2: a request enters the stages CacheLookup, IntentMatch, Retrieval,
\* GenericFallback in that order, each only when the earlier ones gave
\* nothing: a hit ends it at the cache, an intent match ends it before the
\* search, and the generic response comes only after all three gave nothing.
C2_StageOrder ==
  [][ IsRequest(last') =>
        /\ last'.stages \in StagePaths
        /\ \E found \in {IF last'.get_failed THEN None ELSE Stored(last'.input)} :
             IF Truthy(found)
             THEN last'.stages = <<"CacheLookup">> /\ last'.ret = found
             ELSE IF last'.input \notin UnmatchedInputs
             THEN last'.stages = <<"CacheLookup", "IntentMatch">>
             ELSE /\ Len(last'.stages) >= 3
                  /\ Len(last'.stages) = 4 <=> ~UsableContext(last'.context)
                  /\ Len(last'.stages) = 4 => last'.ret = GENERIC_RESPONSE
    ]_vars

C2_Witness ==
  /\ IsRequest(last)
  /\ last.stages = <<"CacheLookup">>
  /\ last.ret = GENERIC_RESPONSE

\* C3 as stated: within the TTL window opened by a freshly resolved answer,
\* every later call with the same query returns that answer and asks neither
\* the intent resolver nor the search.
C3_Original ==
  [][ IsRequest(last') =>
        LET k == _generate_key(last'.input)
        IN  k \in DOMAIN asked =>
              /\ last'.ret = asked[k].response
              /\ last'.stages = <<"CacheLookup">>
    ]_vars

\* C3 as amended: the same, when the first call's cache write succeeded and
\* the later call's cache read does not fail.
C3_Idempotent ==
  [][ IsRequest(last') =>
        LET k == _generate_key(last'.input)
        IN  (k \in DOMAIN asked /\ asked[k].stored /\ ~last'.get_failed) =>
              /\ last'.ret = asked[k].response
              /\ last'.stages = <<"CacheLookup">>
    ]_vars

C3_Witness ==
  /\ IsRequest(last)
  /\ last.stages = <<"CacheLookup">>
  /\ _generate_key(last.input) \in DOMAIN asked
  /\ asked[_generate_key(last.input)].stored
  /\ asked[_generate_key(last.input)].at < now
  /\ asked[_generate_key(last.input)].response = last.ret

\* C4: a request answered from the cache writes nothing, so the entry, its
\* timestamp and its expiry stay as written and the entry goes exactly when
\* its time to live is over; every other request calls set_response once.
C4_HitWritesNothing ==
  [][ /\ IsRequest(last') =>
           /\ Truthy(last'.cached) => store' = store /\ last'.sets = <<>>
           /\ ~Truthy(last'.cached) => Len(last'.sets) = 1
      /\ \A k \in DOMAIN store :
           /\ k \notin DOMAIN store' => store[k].expire_at <= now'
           /\ k \in DOMAIN store' => now' < store'[k].expire_at
      /\ \A k \in DOMAIN asked' :
           asked'[k].stored =>
             /\ k \in DOMAIN store'
             /\ store'[k].value.doc.timestamp = asked'[k].at
             /\ store'[k].expire_at = asked'[k].at + asked'[k].ttl
    ]_vars

C4_Witness ==
  /\ IsRequest(last)
  /\ Truthy(last.cached)
  /\ last.sets = <<>>
  /\ store[_generate_key(last.input)].value.doc.timestamp < now

\* The time to live an entry was written with.
WrittenTtl(entry) == entry.expire_at - entry.value.doc.timestamp

IsDocumentResponse(r) ==
  Len(r) >= Len(PDF_HEADER) /\ SubSeq(r, 1, Len(PDF_HEADER)) = PDF_HEADER

\* C5: the composer writes an intent template for 7200 seconds, a document
\* response for 3600 and the generic response for 1800, and nothing else.
C5_TtlByBranch ==
  /\ IsRequest(last) =>
       \A i \in 1..Len(last.sets) :
         /\ last.sets[i].response = last.ret
         /\ Len(last.stages) = 2 => last.sets[i].ttl = 7200
         /\ Len(last.stages) = 3 => last.sets[i].ttl = 3600
         /\ Len(last.stages) = 4 => last.sets[i].ttl = 1800
         /\ last.sets[i].ttl \in {7200, 3600, 1800}
  /\ \A k \in DOMAIN store :
       LET r == json_loads(store[k].value).val.response
       IN  WrittenTtl(store[k]) =
             IF r = GENERIC_RESPONSE THEN 1800
             ELSE IF IsDocumentResponse(r) THEN 3600
             ELSE 7200

C5_Witness ==
  /\ \E k \in DOMAIN store : WrittenTtl(store[k]) = 7200
  /\ \E k \in DOMAIN store : WrittenTtl(store[k]) = 3600

\* C16: a request that misses the cache and matches no keyword group is
\* answered with the found context inside the document template when the
\* context without its surrounding whitespace is longer than 50 characters,
\* and with the generic response when it has 50 characters or fewer.
C16_ContextThreshold ==
  (IsRequest(last) /\ ~Truthy(last.cached) /\ last.input \in UnmatchedInputs) =>
    /\ Len(strip(last.context)) > 50 =>
         last.ret = PDF_HEADER \o last.context \o PDF_FOOTER
    /\ Len(strip(last.context)) <= 50 => last.ret = GENERIC_RESPONSE
    /\ last.ret # GENERIC_RESPONSE => IsDocumentResponse(last.ret)

C16_Witness ==
  /\ IsRequest(last)
  /\ ~Truthy(last.cached)
  /\ Len(strip(last.context)) = 50
  /\ Len(last.context) > 50
  /\ last.ret = GENERIC_RESPONSE

\* The cache key of each query, tabulated.
key_of == [q \in UserInputs |-> _generate_key(q)]

\* C22: queries with one cache key have one answer of the intent resolver;
\* the entry under the key of a query that matches a keyword group holds the
\* template the resolver gives that query; and a request for such a query
\* that is answered from the cache returns that template.
C22_CacheCoherent ==
  /\ \A q1 \in UserInputs, q2 \in UserInputs :
       key_of[q1] = key_of[q2] => fallback_of[q1] = fallback_of[q2]
  /\ \A q \in UserInputs :
       \E found \in {Stored(q)} :
         (Truthy(fallback_of[q]) /\ Truthy(found)) => found = fallback_of[q]
  /\ ( /\ IsRequest(last)
       /\ Truthy(last.cached)
       /\ Truthy(fallback_of[last.input]) )
     => /\ last.ret = fallback_of[last.input]
        /\ last.stages = <<"CacheLookup">>

\* A query answered from the entry another spelling of it wrote.
C22_Witness ==
  /\ IsRequest(last)
  /\ last.input = Q_horarios_
  /\ Truthy(last.cached)
  /\ last.ret = SCHEDULE_ALL
  /\ key_of[Q_horarios_] \in DOMAIN store
  /\ json_loads(store[key_of[Q_horarios_]].value).val.input = Q_Horarios

\* An entry get_response finds and can give no response from.
Unusable(entry) ==
  \/ entry.value.fmt # "json"
  \/ "response" \notin DOMAIN entry.value.doc
  \/ ~Truthy(json_loads(entry.value).val.response)

\* A request whose lookup reached the store and found an unusable entry.
FoundUnusable(k) ==
  /\ IsRequest(last')
  /\ ~last'.get_failed
  /\ cache_available
  /\ k = _generate_key(last'.input)
  /\ k \in DOMAIN store
  /\ ~Expired(store[k], now)
  /\ Unusable(store[k])

\* The request went on as on a miss: nothing raised, no cached response, the
\* resolver's template if there is one, else the documents or the generic
\* response, and one call of set_response with the time to live of the
\* branch.
TreatedAsMiss ==
  /\ ~last'.raised
  /\ ~Truthy(last'.cached)
  /\ Len(last'.stages) > 1
  /\ last'.fallback = fallback_of[last'.input]
  /\ last'.ret = IF Truthy(last'.fallback) THEN last'.fallback
                 ELSE IF UsableContext(last'.context)
                 THEN PDF_HEADER \o last'.context \o PDF_FOOTER
                 ELSE GENERIC_RESPONSE
  /\ Len(last'.sets) = 1
  /\ last'.sets[1].response = last'.ret
  /\ last'.sets[1].ttl = IF Truthy(last'.fallback) THEN 7200
                         ELSE IF UsableContext(last'.context) THEN 3600
                         ELSE 1800

\* The entry under k now holds the response, to expire with the branch.
Repaired(k) ==
  /\ k \in DOMAIN store'
  /\ ~Unusable(store'[k])
  /\ json_loads(store'[k].value).val.response = last'.ret
  /\ store'[k].expire_at = now + last'.sets[1].ttl

\* C23 as stated: a request that finds an unusable entry under its key is
\* treated as a miss and its response always replaces the entry.
C23_Original ==
  [][ \A k \in {_generate_key(last'.input)} :
        FoundUnusable(k) => TreatedAsMiss /\ Repaired(k)
    ]_vars

\* C23: a request that finds an unusable entry under its key is treated as
\* a miss; when the write of set_response succeeds, its response replaces
\* the entry with the time to live of the branch; when the write fails, the
\* entry stays as it was.
C23_RepairsWhenWritten ==
  [][ \A k \in {_generate_key(last'.input)} :
        FoundUnusable(k) =>
          /\ TreatedAsMiss
          /\ last'.sets[1].ok => Repaired(k)
          /\ ~last'.sets[1].ok => store' = store
    ]_vars

\* An undecodable entry replaced by the schedule template.
C23_Witness ==
  /\ IsRequest(last)
  /\ last.input = Q_Horarios
  /\ ~Truthy(last.cached)
  /\ last.ret = SCHEDULE_ALL
  /\ key_of[Q_Horarios] \in DOMAIN store
  /\ Stored(Q_Horarios) = SCHEDULE_ALL
  /\ store[key_of[Q_Horarios]].expire_at = 7200
  /\ key_of[Q_hola] \in DOMAIN store
  /\ store[key_of[Q_hola]].value.fmt = "garbage"

----------------------------------------------------------------------------
(* Properties of the response cache *)

\* The decoded document of a cache entry.
Doc(entry) == json_loads(entry.value).val

\* C8: no method of the cache raises; without a connection made at
\* construction, or when the store fails during the call, get_response
\* returns None and set_response and clear_cache return False; and without
\* that connection no entry is ever created.
C8_NeverRaises ==
  /\ ~last.raised
  /\ (last.op \in {"get_response", "set_response", "clear_cache"}
        /\ (~cache_available \/ last.get_failed)) =>
       /\ last.op = "get_response" => last.ret = None
       /\ last.op = "set_response" => last.flag = FALSE
       /\ last.op = "clear_cache" => last.flag = FALSE
  /\ ~cache_available => redis_keys(KeyPrefix) = {}

C8_Witness ==
  /\ cache_available
  /\ last.op = "get_response"
  /\ last.get_failed
  /\ last.ret = None
  /\ _generate_key(last.input) \in DOMAIN store

\* C9: a get_response that follows a successful set_response of the same
\* query at once returns the response that was set; a get_response for a
\* query whose last set is ttl seconds or more in the past, or that was never
\* set, returns None.
C9_RoundTrip ==
  [][ last'.op = "get_response" =>
        /\ ( /\ last.op = "set_response" /\ last.flag
             /\ last'.input = last.input
             /\ ~last'.get_failed ) =>
              last'.ret = last.sets[1].response
        /\ Normalize(last'.input) \notin DOMAIN written' => last'.ret = None
    ]_vars

C9_Witness ==
  /\ last.op = "get_response"
  /\ last.ret = R_Special
  /\ Normalize(last.input) \in DOMAIN written
  /\ written[Normalize(last.input)].at = now
  /\ now > 0

\* C10: the cache holds at most one entry per normalized query (the input
\* lower-cased and trimmed); the entry is the last one written for it, with
\* that write's time to live, whatever spelling wrote it; and get_response
\* returns the last written response for any spelling of the query.
C10_OneEntryPerQuery ==
  /\ \A k1, k2 \in redis_keys(KeyPrefix) :
       Normalize(Doc(store[k1]).input) = Normalize(Doc(store[k2]).input)
         => k1 = k2
  /\ \A n \in DOMAIN written :
       \E k \in redis_keys(KeyPrefix) :
         /\ Normalize(Doc(store[k]).input) = n
         /\ Doc(store[k]).response = written[n].response
         /\ store[k].expire_at = written[n].at + written[n].ttl
  /\ (last.op = "get_response" /\ cache_available /\ ~last.get_failed) =>
       last.ret = IF Normalize(last.input) \in DOMAIN written
                  THEN written[Normalize(last.input)].response
                  ELSE None

C10_Witness ==
  /\ last.op = "get_response"
  /\ Truthy(last.ret)
  /\ \E k \in redis_keys(KeyPrefix) :
       /\ Normalize(Doc(store[k]).input) = Normalize(last.input)
       /\ Doc(store[k]).input # last.input
       /\ WrittenTtl(store[k]) = TTL_DOCUMENTS
       /\ Doc(store[k]).timestamp > 0

\* The keys of the chatbot in a keyspace.
OwnKeys(st) == {k \in DOMAIN st : k.prefix = KeyPrefix}

\* C11: clear_cache removes the keys under "chatbot_response:" and no
\* other: every other key keeps its value; after a clear_cache that returned
\* True the store holds no key of the chatbot, only set_response adds one,
\* and get_response returns None for every query while there is none.
C11_ClearsOwnNamespace ==
  [][ /\ last'.op = "clear_cache" =>
           /\ \A k \in DOMAIN store \ OwnKeys(store) :
                k \in DOMAIN store' /\ store'[k] = store[k]
           /\ DOMAIN store' \subseteq DOMAIN store
           /\ last'.flag => OwnKeys(store') = {}
           /\ ~last'.flag => store' = store
      /\ OwnKeys(store') \ OwnKeys(store) # {} => last'.op = "set_response"
      /\ (last'.op = "get_response" /\ OwnKeys(store) = {}) =>
           last'.ret = None
    ]_vars

C11_Witness ==
  /\ last.op = "clear_cache"
  /\ last.flag
  /\ last.cached = <<"entries", 2>>
  /\ DOMAIN store = {ForeignKey}
  /\ store[ForeignKey] = ForeignEntry

\* C12: cache_available is what the connection attempt of the constructor
\* made it, for good: without it no call touches the store, also when the
\* server has come back; with it every call goes to the store again, also
\* after a call that failed.
C12_AvailabilityFixed ==
  [][ /\ cache_available' = cache_available
      /\ (~cache_available
            /\ last'.op \in {"get_response", "set_response", "clear_cache"}) =>
           /\ store' = store
           /\ last'.flag = FALSE
           /\ last'.op = "get_response" => last'.ret = None
      /\ (cache_available /\ ~last'.get_failed
            /\ last'.op = "set_response") =>
           /\ last'.flag
           /\ _generate_key(last'.input) \in DOMAIN store'
      /\ (cache_available /\ ~last'.get_failed
            /\ last'.op = "get_response") =>
           last'.ret = IF _generate_key(last'.input) \in DOMAIN store
                       THEN Doc(store[_generate_key(last'.input)]).response
                       ELSE None
    ]_vars

C12_Witness ==
  /\ redis_installed /\ store_up /\ ~cache_available
  /\ last.op = "set_response"
  /\ ~last.flag
  /\ OwnKeys(store) = {}

----------------------------------------------------------------------------
(* Properties of the intent resolver *)

\* The templates of each keyword group, in the order of KeywordGroups; the
\* schedule group answers with the schedule of the swimmers asked about.
GroupTemplates ==
  << {ENROLLMENT_STEPS}, {SCHEDULE_CHILDREN, SCHEDULE_ADULTS, SCHEDULE_ALL},
     {PRICES}, {WHAT_TO_BRING}, {EMPHASIS}, {AGES}, {CONTACT},
     {MAKEUP_POLICY}, {REGULATIONS}, {REGISTRATION} >>

MatchingGroups(q) == {g \in 1..Len(KeywordGroups) : MatchesGroup(g, q)}
FirstGroup(q) ==
  CHOOSE g \in MatchingGroups(q) : \A h \in MatchingGroups(q) : g <= h

Resolved == last.op = "get_fallback_response"

\* C6: get_fallback_response answers with a template of the first group, in
\* the order enrollment, schedule, price, what to bring, teaching approach,
\* age, contact, make-up classes, regulations, registration, that has a
\* keyword inside the lower-cased input, and with None when no group has.
C6_FirstGroupWins ==
  Resolved =>
    IF MatchingGroups(text) = {} THEN answer = None
    ELSE answer \in GroupTemplates[FirstGroup(text)]

C6_Witness ==
  /\ Resolved
  /\ Cardinality(MatchingGroups(text)) >= 2
  /\ FirstGroup(text) = 2
  /\ 3 \in MatchingGroups(text)
  /\ answer = SCHEDULE_ALL

\* C7: a query that matches a keyword group gets the same template in every
\* spelling that differs from it in letter case or in whitespace before and
\* after it.
C7_SameForRespellings ==
  (Resolved /\ MatchingGroups(text) # {}) =>
    /\ Truthy(answer)
    /\ variant_answer = answer

C7_Witness ==
  /\ Resolved
  /\ edits = MaxEdits
  /\ lower(variant) # lower(text)
  /\ strip(variant) # variant
  /\ variant_answer = SCHEDULE_CHILDREN

\* The words of the schedule sub-rules, as the lower-cased input holds them.
ChildKeywords ==
  { <<"n","i","n~","o">>, <<"n","i","n~","a">>, <<"m","e","n","o","r">>,
    <<"i","n","f","a","n","t","i","l">> }
AdultKeywords == { <<"a","d","u","l","t","o">>, <<"m","a","y","o","r">> }
HasKeyword(words, q) == \E w \in words : Contains(lower(q), w)

\* C18: a query with a schedule keyword and no enrollment keyword is answered
\* with the children's schedule when it has a child keyword (nino, nina,
\* menor, infantil), else with the adults' schedule when it has an adult
\* keyword (adulto, mayor), else with the combined schedule; a query with an
\* enrollment keyword never reaches the schedule branch; and the query of the
\* children's schedule button has the children's schedule.
C18_ScheduleSubRules ==
  Resolved =>
    /\ (MatchesGroup(2, text) /\ ~MatchesGroup(1, text)) =>
         answer = IF HasKeyword(ChildKeywords, text) THEN SCHEDULE_CHILDREN
                  ELSE IF HasKeyword(AdultKeywords, text) THEN SCHEDULE_ADULTS
                  ELSE SCHEDULE_ALL
    /\ MatchesGroup(1, text) =>
         answer \notin {SCHEDULE_CHILDREN, SCHEDULE_ADULTS, SCHEDULE_ALL}
    /\ text = B_ScheduleChildren => answer = SCHEDULE_CHILDREN

\* A schedule query naming both an adult and a child, answered with the
\* children's schedule.
C18_Witness ==
  /\ Resolved
  /\ MatchesGroup(2, text) /\ ~MatchesGroup(1, text)
  /\ HasKeyword(ChildKeywords, text) /\ HasKeyword(AdultKeywords, text)
  /\ answer = SCHEDULE_CHILDREN

\* The keywords of the claim about the last group, as the lower-cased input
\* holds them.
RegistrationKeywords ==
  { <<"i","n","s","c","r","i","p","c","i","o","n">>,
    <<"i","n","s","c","r","i","p","c","i","o'","n">>,
    <<"m","a","t","r","i","c","u","l","a">>,
    <<"m","a","t","r","i'","c","u","l","a">>,
    <<"r","e","g","i","s","t","r","o">> }

\* C21: every keyword of the last group (registration) is a keyword of the
\* first group (enrollment); get_fallback_response never answers with the
\* registration template; and an input with inscripcion, inscripcio'n,
\* matricula, matri'cula or registro inside is answered with the enrollment
\* steps.
C21_RegistrationUnreachable ==
  /\ \A k \in DOMAIN registration_words :
       \E j \in DOMAIN enrollment_words :
         enrollment_words[j] = registration_words[k]
  /\ {registration_words[k] : k \in DOMAIN registration_words}
       = RegistrationKeywords
  /\ Resolved =>
       /\ answer # REGISTRATION
       /\ HasKeyword(RegistrationKeywords, text) => answer = ENROLLMENT_STEPS

\* A question with registro and a schedule keyword, answered with the
\* enrollment steps.
C21_Witness ==
  /\ Resolved
  /\ HasKeyword({<<"r","e","g","i","s","t","r","o">>}, text)
  /\ MatchesGroup(2, text)
  /\ MatchesGroup(10, text)
  /\ answer = ENROLLMENT_STEPS

----------------------------------------------------------------------------
(* Properties of identify_doc_type *)

\* The type words in the order the specification gives them.
DocTypes == << DOC_REGLAMENTO, DOC_INSCRIPCION, DOC_PRECIOS >>

TypesIn(name) == {i \in 1..Len(DocTypes) : Contains(lower(name), DocTypes[i])}

FirstType(name) ==
  IF TypesIn(name) = {} THEN DOC_GENERAL
  ELSE DocTypes[CHOOSE i \in TypesIn(name) : \A j \in TypesIn(name) : i <= j]

\* C17: identify_doc_type answers for every file name, with the first of
\* reglamento, inscripcion, precios that the lower-cased name contains and
\* with general when it contains none; the answer is the same for every
\* spelling of the name in capitals or small letters.
C17_DocTypeOfName ==
  last.op = "identify_doc_type" =>
    /\ answer = FirstType(text)
    /\ answer \in {DOC_REGLAMENTO, DOC_INSCRIPCION, DOC_PRECIOS, DOC_GENERAL}
    /\ variant_answer = answer

C17_Witness ==
  /\ last.op = "identify_doc_type"
  /\ Cardinality(TypesIn(text)) = 2
  /\ variant # text
  /\ text # lower(text)
  /\ answer = DOC_REGLAMENTO
  /\ 3 \in TypesIn(text)

----------------------------------------------------------------------------
(* Properties of the document setup *)

IsPdf(f) == endswith(f.name, PDF_SUFFIX)
ReadablePdf(f) == IsPdf(f) /\ f.readable
UnreadablePdf(f) == IsPdf(f) /\ ~f.readable

\* The pages of files, in order, each with the name of its file.
RECURSIVE PagesOf(_)
PagesOf(files) ==
  IF files = <<>> THEN <<>>
  ELSE [i \in 1..Len(Head(files).pages) |->
          <<Head(files).name, Head(files).pages[i]>>]
       \o PagesOf(Tail(files))

\* C13: after a setup that found no documents folder or an empty one, and
\* no club_vectorstore.faiss, the bot has no index; with no index, or with
\* one whose search raises, a request that misses the cache and matches no
\* keyword group gets an empty context and the generic response, and
\* nothing is raised.
C13_NoRetrievalEndsGeneric ==
  /\ ( /\ rag.started
       /\ ~pdf_folder.present \/ pdf_folder.files = <<>>
       /\ "club_vectorstore.faiss" \notin DOMAIN paths )
     => vectorstore = NoIndex
  /\ ( /\ IsRequest(last)
       /\ last.input \in UnmatchedInputs
       /\ ~Truthy(last.cached)
       /\ ~vectorstore.present \/ vectorstore.broken )
     => /\ ~last.raised
        /\ last.context = <<>>
        /\ last.ret = GENERIC_RESPONSE
        /\ last.stages[Len(last.stages)] = "GenericFallback"

C13_Witness ==
  /\ pdf_folder = Folder(<<>>)
  /\ DOMAIN paths = {}
  /\ rag.started /\ ~rag.failed
  /\ IsRequest(last)
  /\ last.input = Q_hola
  /\ last.ret = GENERIC_RESPONSE

\* C14 as stated: a startup that follows one in which the index was built
\* and saved finds the saved index at the path it checks, loads it and
\* reads no document.
C14_LoadsPersisted ==
  [][ (rag.saved /\ rag'.startups = rag.startups + 1 /\ ~rag'.failed) =>
        /\ rag'.checked \in DOMAIN paths
        /\ rag'.loaded
        /\ rag'.documents = <<>>
        /\ ~rag'.built
    ]_vars

\* C15: when the setup reads the folder, it gathers the pages of exactly
\* the .pdf files that load, in the folder's order, and a warning for each
\* one that does not, and goes on to the end of the folder; with no folder,
\* or none of its files a .pdf that loads, it gathers nothing and hands
\* back no index, without failing.
C15_SkipsUnreadableFiles ==
  (rag.started /\ rag.checked # "" /\ rag.checked \notin DOMAIN paths) =>
    LET good == SelectSeq(pdf_folder.files, ReadablePdf)
        bad == SelectSeq(pdf_folder.files, UnreadablePdf)
    IN  /\ [i \in DOMAIN rag.documents |->
              << rag.documents[i].metadata.source,
                 rag.documents[i].page_content >>] = PagesOf(good)
        /\ rag.warnings = [i \in DOMAIN bad |-> bad[i].name]
        /\ good = <<>> =>
             /\ rag.documents = <<>>
             /\ vectorstore = NoIndex
             /\ ~rag.failed
        /\ (good # <<>> /\ ~rag.failed) => vectorstore.present

C15_Witness ==
  /\ rag.started /\ ~rag.failed
  /\ rag.warnings = <<F_Reglamento>>
  /\ Len(rag.documents) = 2
  /\ Len(pdf_folder.files) = 3
  /\ vectorstore.present

----------------------------------------------------------------------------
(* Properties of the session *)

Processed == last.op = "process_message"

\* What each quick-query button names, in the order of QuickQueries: the
\* template, and the keyword group it belongs to.
ButtonTemplates ==
  << SCHEDULE_ALL, SCHEDULE_CHILDREN, SCHEDULE_ADULTS, PRICES, EMPHASIS,
     ENROLLMENT_STEPS, WHAT_TO_BRING, MAKEUP_POLICY, AGES >>
ButtonGroups == << 2, 2, 2, 3, 5, 1, 4, 8, 6 >>

\* The keyword groups with a keyword inside each button's query.
ButtonMatches ==
  [b \in DOMAIN QuickQueries |->
     {g \in 1..Len(KeywordGroups) : MatchesGroup(g, QuickQueries[b])}]

\* C19: the query of each of the nine quick-query buttons has its first
\* keyword match in the group the button names, the intent resolver gives it
\* the template the button names, and the pressed button puts that template
\* into the transcript as the answer.
C19_ButtonsReachTheirTemplate ==
  \A b \in DOMAIN QuickQueries :
    (Processed /\ last.input = QuickQueries[b]) =>
      /\ ButtonGroups[b] \in ButtonMatches[b]
      /\ \A g \in ButtonMatches[b] : ButtonGroups[b] <= g
      /\ fallback_of[QuickQueries[b]] = ButtonTemplates[b]
      /\ last.ret = ButtonTemplates[b]
      /\ messages[Len(messages)] = Turn("assistant", ButtonTemplates[b])

\* The make-up policy button pressed after the prices button.
C19_Witness ==
  /\ Processed
  /\ Len(messages) = 4
  /\ messages[1].content = B_Prices /\ messages[2].content = PRICES
  /\ last.input = B_Makeup /\ last.ret = MAKEUP_POLICY

====
